---- MODULE Spec2Model ----
(***************************************************************************)
(* Lifecycle driver of the Nokia SR Linux node kind (nodes/srl/srl.go):    *)
(* Init, PreDeploy, Deploy, PostDeploy with its readiness gate (Ready) and *)
(* default bootstrap (addDefaultConfig), SaveConfig and Delete, for one    *)
(* node instance.  The container runtime, the certificate package and the  *)
(* file system are collaborators: every outcome they can hand back is a    *)
(* nondeterministic input of the action that calls them.  A second node    *)
(* instance of the kind is present as far as its topology descriptor goes. *)
(***************************************************************************)
EXTENDS Integers, Sequences, FiniteSets, TLC

VARIABLES
    cfg,          \* the *types.NodeConfig handed to Init, s.cfg from then on
    fs,           \* the files of the node's lab directory
    stage,        \* how far the orchestrator has driven the lifecycle
    op,           \* the lifecycle method in progress, "idle" between calls
    pc,           \* position inside Ready / addDefaultConfig
    elapsed,      \* seconds since Ready derived its context (srl.go:246)
    ctxCancelled, \* the caller's context has been cancelled
    exec,         \* command and (stdout, stderr, err) of the latest Exec
    execs,        \* transfer, apply and save Execs issued by the latest call
    result,       \* the method that returned last and what it returned
    pre,          \* what the collaborators answered in the latest PreDeploy
    boot,         \* the container files the latest bootstrap wrote and read
    entropy,      \* the byte pairs crypto/rand may deliver to this process
    peer          \* topology.yml of another srl node of the same process

(* The part of the state that belongs to the process, not to this node.    *)
host == <<entropy, peer>>

vars == <<cfg, fs, stage, op, pc, elapsed, ctxCancelled, exec, execs, result,
          pre, boot, entropy, peer>>

-----------------------------------------------------------------------------
(* Program constants, in seconds.                                          *)
readyTimeout == 120
retryTimer == 1

srlDefaultType == "ixrd2"

srlTypes == {"ixr6", "ixr10", "ixrd1", "ixrd2", "ixrd3", "ixrh2", "ixrh3"}

srlSysctl ==
    [k \in {"net.ipv4.ip_forward", "net.ipv6.conf.all.disable_ipv6",
            "net.ipv6.conf.all.accept_dad", "net.ipv6.conf.default.accept_dad",
            "net.ipv6.conf.all.autoconf", "net.ipv6.conf.default.autoconf"}
        |-> "0"]

srlEnv == [k \in {"SRLINUX"} |-> "1"]

srlCmd == "sudo bash -c 'touch /.dockerenv && /opt/srlinux/bin/sr_linux'"

(* The words the two readiness commands grep for.                          *)
mgmtServerRdyMarker == <<"running">>
commitCompleteMarker == <<"complete">>

-----------------------------------------------------------------------------
(* Bounds of the model.                                                    *)
MaxExecTime == 1      \* an Exec round trip takes 0..MaxExecTime seconds
ExecCap == 2          \* the per-call Exec counters saturate here
MaxByte == 1          \* a random byte is one of 0..MaxByte

ExecTimes == 0..MaxExecTime

(* The clock saturates once the deadline is safely behind.                 *)
ClockMax == readyTimeout + retryTimer + MaxExecTime

Min(a, b) == IF a <= b THEN a ELSE b

Advance(t, d) == Min(t + d, ClockMax)

-----------------------------------------------------------------------------
(* What the runtime collaborator can return from Exec.  Output is a        *)
(* sequence of words; the error stream is a sequence of bytes.             *)
Stdouts == {<< >>, <<"state", "running">>, <<"status", "complete">>}
BothMarkers == <<"running", "complete">>

ExecResults ==
    [stdout : Stdouts, stderr : {<< >>}, err : {"nil"}]
    \cup {[stdout |-> BothMarkers, stderr |-> <<"E">>, err |-> "nil"],
          [stdout |-> BothMarkers, stderr |-> << >>, err |-> "error"],
          [stdout |-> << >>, stderr |-> <<"E">>, err |-> "error"]}

(* The commands that change the node are counted per call.                 *)
Counted == {"transfer", "apply", "saveCmd"}

NoExecs == [c \in Counted |-> 0]

NoExec == [cmd |-> "none", stdout |-> << >>, stderr |-> << >>, err |-> "nil"]

Issued(c, r) == [cmd |-> c, stdout |-> r.stdout, stderr |-> r.stderr, err |-> r.err]

Count(c) == [execs EXCEPT ![c] = Min(@ + 1, ExecCap)]

(* bytes.Contains: sub occurs in s as a contiguous run.                    *)
Contains(s, sub) ==
    \E i \in 0..(Len(s) - Len(sub)) : SubSeq(s, i + 1, i + Len(sub)) = sub

-----------------------------------------------------------------------------
(* The NodeConfig records the orchestrator may hand to Init.  The user's   *)
(* sysctls name one key of the kind's default set, with another value, and *)
(* one key outside it.                                                     *)
NodeTypeInputs == {"", "ixr6", "sr1"}
StartupConfigInputs == {"", "startup.cfg"}
LicenseInputs == {"", "license.txt"}
AgentInputs == {<<"agent1.yml", "agent2.yml">>}
UserInputs == {""}
EnvInputs == {[k \in {"SRLINUX"} |-> "0"]}
SysctlInputs ==
    {[k \in {"net.ipv4.ip_forward", "net.core.somaxconn"} |->
        IF k = "net.ipv4.ip_forward" THEN "1" ELSE "512"]}
BindInputs == {<< >>}
TLSAnchorInputs == {"rootCA"}

NodeConfigs ==
    [NodeType : NodeTypeInputs, StartupConfig : StartupConfigInputs,
     License : LicenseInputs, SRLAgents : {<< >>}, User : UserInputs,
     Env : EnvInputs, Sysctls : SysctlInputs, Binds : BindInputs,
     Image : {"srlinux"},
     Cmd : {""}, TLSCert : {""}, TLSKey : {""}, TLSAnchor : {""}]
    \cup
    [NodeType : {""}, StartupConfig : {""},
     License : {""}, SRLAgents : AgentInputs, User : UserInputs,
     Env : EnvInputs, Sysctls : SysctlInputs, Binds : BindInputs,
     Image : {"srlinux"},
     Cmd : {""}, TLSCert : {""}, TLSKey : {""}, TLSAnchor : {""}]
    \cup
    [NodeType : {""}, StartupConfig : {""},
     License : {""}, SRLAgents : {<< >>}, User : UserInputs,
     Env : EnvInputs, Sysctls : SysctlInputs, Binds : BindInputs,
     Image : {"srlinux"},
     Cmd : {""}, TLSCert : {""}, TLSKey : {""}, TLSAnchor : TLSAnchorInputs]

(* A wider choice for Init alone: every node type of the kind and names    *)
(* that are none of them, a user, and maps and binds with and without the  *)
(* user's own entries.                                                     *)
AnyNodeTypeInputs == srlTypes \cup {"", "sr1", "IXRD2"}
AnyUserInputs == {"", "1000:1000"}
AnyEnvInputs == {<< >>} \cup EnvInputs \cup {[k \in {"CLAB"} |-> "lab"]}
AnySysctlInputs == {<< >>} \cup SysctlInputs
AnyBindInputs == {<< >>, <<"/lab/data:/data:rw">>}

AnyNodeConfigs ==
    [NodeType : AnyNodeTypeInputs, StartupConfig : StartupConfigInputs,
     License : LicenseInputs, SRLAgents : {<< >>}, User : AnyUserInputs,
     Env : AnyEnvInputs, Sysctls : AnySysctlInputs, Binds : AnyBindInputs,
     Image : {"srlinux"},
     Cmd : {""}, TLSCert : {""}, TLSKey : {""}, TLSAnchor : {""}]

NoPre == [called |-> FALSE]

NoResult == [op |-> "none", err |-> "nil"]

Pending(o) == [op |-> o, err |-> "pending"]

Returned(o, e) == [op |-> o, err |-> e]

-----------------------------------------------------------------------------
(* The state after new(srl): the orchestrator has built the NodeConfig it  *)
(* will hand to Init.  The lab directory may hold a config/config.json     *)
(* persisted by an earlier run of the lab.                                 *)
NoTopology == [state |-> "absent", mac |-> << >>]

LabDirs ==
    [configJson : BOOLEAN, topology : {NoTopology}, license : {FALSE}, appmgr : {{}}]

NoBoot == [ran |-> FALSE]

(* What crypto/rand can fill the two bytes of a draw with.                 *)
RandBytes == 0..MaxByte
AnyEntropy == RandBytes \X RandBytes
FixedEntropy == {<<0, 0>>}

Constructed ==
    /\ fs \in LabDirs
    /\ stage = "new"
    /\ op = "idle"
    /\ pc = "none"
    /\ elapsed = 0
    /\ ctxCancelled = FALSE
    /\ exec = NoExec
    /\ execs = NoExecs
    /\ result = NoResult
    /\ pre = NoPre
    /\ boot = NoBoot
    /\ peer = NoTopology

(* The lifecycle: the bytes crypto/rand delivers play no part after        *)
(* PreDeploy and are held to one pair.                                     *)
Init ==
    /\ Constructed
    /\ cfg \in NodeConfigs
    /\ entropy = FixedEntropy

(* Init over the wider choice of NodeConfig records.                       *)
InitAny ==
    /\ Constructed
    /\ cfg \in AnyNodeConfigs
    /\ entropy = FixedEntropy

(* Provisioning with every pair of random bytes, for the records that      *)
(* leave the node type to its default.                                     *)
InitRand ==
    /\ Constructed
    /\ cfg \in {c \in NodeConfigs : c.NodeType = ""}
    /\ entropy = AnyEntropy

-----------------------------------------------------------------------------
(* utils.MergeStringMaps(m1, m2): the keys of both, m2 winning.            *)
MergeStringMaps(m1, m2) ==
    [k \in (DOMAIN m1) \cup (DOMAIN m2) |-> IF k \in DOMAIN m2 THEN m2[k] ELSE m1[k]]

(* Variant in which a value of the user stands against the default.        *)
SetSysctlsKeepingUser(m) ==
    [k \in (DOMAIN m) \cup (DOMAIN srlSysctl) |->
        IF k \in DOMAIN m THEN m[k] ELSE srlSysctl[k]]

(* for k, v := range srlSysctl { s.cfg.Sysctls[k] = v }                    *)
SetSysctls(m) ==
    [k \in (DOMAIN m) \cup (DOMAIN srlSysctl) |->
        IF k \in DOMAIN srlSysctl THEN srlSysctl[k] ELSE m[k]]

(* The binds Init appends, in order.                                       *)
LicenseBind == <<"license.key:/opt/srlinux/etc/license.key:ro">>
ConfigBind == <<"config:/etc/opt/srlinux/:rw">>
TopologyBind == <<"topology.yml:/tmp/topology.yml:ro">>

(* Variant of the lookup that takes any name for a type of the kind.       *)
FoundAnyName(t) == t # ""

(* _, found := srlTypes[s.cfg.NodeType]                                    *)
Found(t) == t \in srlTypes

(* The keys the range loop over srlTypes appends: each key of the map      *)
(* once.  The order of a map iteration is not fixed, so the list is kept   *)
(* as the number of times each name stands in it.                          *)
Keys == [k \in srlTypes |-> 1]

(* The error of srl.go:112: the rejected type and the joined keys.         *)
WrongNodeType(t) ==
    [op |-> "Init", err |-> "InvalidConfig", nodeType |-> t, listed |-> Keys]

(* Variant that sets the entrypoint command before the type is looked up.  *)
DefaultTypeAndCmd(c) ==
    [c EXCEPT !.NodeType = IF @ = "" THEN srlDefaultType ELSE @,
              !.Cmd = srlCmd]

(* if s.cfg.NodeType == "" { s.cfg.NodeType = srlDefaultType }             *)
DefaultType(c) ==
    IF c.NodeType = "" THEN [c EXCEPT !.NodeType = srlDefaultType] ELSE c

(* What Init writes once the type is found (srl.go:115-139).               *)
Defaults(c) ==
    [c EXCEPT
        !.Cmd = srlCmd,
        !.Env = MergeStringMaps(srlEnv, c.Env),
        !.User = IF c.User = "" THEN "0:0" ELSE c.User,
        !.Sysctls = SetSysctls(c.Sysctls),
        !.Binds = c.Binds
                  \o (IF c.License # "" THEN LicenseBind ELSE << >>)
                  \o ConfigBind \o TopologyBind]

(* srl.Init on the NodeConfig it is given, changed in place: default the   *)
(* node type, validate it, then fill in command, environment, user,        *)
(* sysctls and binds.                                                      *)
SrlInit ==
    /\ op = "idle"
    /\ stage = "new"
    /\ LET typed == DefaultType(cfg)
       IN  IF ~Found(typed.NodeType)
           THEN /\ cfg' = typed
                /\ stage' = "invalid"
                /\ result' = WrongNodeType(typed.NodeType)
           ELSE /\ cfg' = Defaults(typed)
                /\ stage' = "inited"
                /\ result' = Returned("Init", "nil")
    /\ pre' = NoPre
    /\ boot' = NoBoot
    /\ UNCHANGED <<fs, op, pc, elapsed, ctxCancelled, exec, execs, host>>

-----------------------------------------------------------------------------
(* generateSRLTopologyFile: parse the embedded template, draw the random   *)
(* bytes, create topology.yml and render into it.  how names the step that *)
(* fails, "ok" when none does.  os.Create truncates, so a failed render    *)
(* leaves a partial file.  buf is what rand.Read put into the two bytes.   *)
TopoOutcomes == {"ok", "parse", "rand", "create", "execute"}

(* fmt.Sprintf("02:%02x:%02x:00:00:00", buf[0], buf[1]), byte by byte.     *)
BaseMac(buf) == <<2, buf[1] % 256, buf[2] % 256, 0, 0, 0>>

(* Variant that keeps a topology.yml that is already there.                *)
WriteTopologyOnce(old, how, buf) ==
    CASE old.state = "written" -> old
      [] how = "ok"            -> [state |-> "written", mac |-> BaseMac(buf)]
      [] how = "execute"       -> [state |-> "partial", mac |-> << >>]
      [] OTHER                 -> old

(* topology.yml after os.Create and tpl.Execute, or after the step that    *)
(* failed; old is the file as it was.                                      *)
WriteTopology(old, how, buf) ==
    CASE how = "ok"      -> [state |-> "written", mac |-> BaseMac(buf)]
      [] how = "execute" -> [state |-> "partial", mac |-> << >>]
      [] OTHER           -> old

generateSRLTopologyFile(f, how, buf) ==
    [fs |-> [f EXCEPT !.topology = WriteTopology(@, how, buf)],
     err |-> IF how = "ok" THEN "nil" ELSE "TopologyFailed"]

(* NodeConfig.GenerateConfig(dst, template): renders the startup config    *)
(* into config/config.json.                                                *)
GenerateConfig(f, ok) ==
    IF ok THEN [fs |-> [f EXCEPT !.configJson = TRUE], err |-> "nil"]
          ELSE [fs |-> f, err |-> "RenderFailed"]

(* createSRLFiles.  The error of GenerateConfig is assigned to the err     *)
(* declared by "c, err := os.ReadFile" inside the if block (srl.go:330),   *)
(* so the function's last statement returns the outer err, which is nil    *)
(* once the topology file has been generated.                              *)
createSRLFiles(c, f, licenseOk, topo, buf, readOk, genOk) ==
    LET licRun == c.License # ""
        f1 == IF licRun /\ licenseOk THEN [f EXCEPT !.license = TRUE] ELSE f
        t == generateSRLTopologyFile(f1, topo, buf)
        outerErr == t.err
        g == GenerateConfig(t.fs, genOk)
        innerErr == g.err
    IN  IF licRun /\ ~licenseOk
        THEN [fs |-> f, err |-> "LicenseCopyFailed",
              license |-> "failed", topo |-> "skipped", overlay |-> "skipped"]
        ELSE IF t.err # "nil"
        THEN [fs |-> t.fs, err |-> t.err,
              license |-> IF licRun THEN "ok" ELSE "skipped",
              topo |-> topo, overlay |-> "skipped"]
        ELSE IF c.StartupConfig = ""
        THEN [fs |-> t.fs, err |-> outerErr,
              license |-> IF licRun THEN "ok" ELSE "skipped",
              topo |-> topo, overlay |-> "skipped"]
        ELSE IF ~readOk
        THEN [fs |-> t.fs, err |-> "ReadFailed",
              license |-> IF licRun THEN "ok" ELSE "skipped",
              topo |-> topo, overlay |-> "readFailed"]
        ELSE [fs |-> g.fs, err |-> outerErr,
              license |-> IF licRun THEN "ok" ELSE "skipped",
              topo |-> topo,
              overlay |-> IF innerErr = "nil" THEN "ok" ELSE "renderFailed"]

(* The agent copy loop of PreDeploy: agents 1..failAt-1 are copied, the    *)
(* copy of agent failAt fails; failAt = 0 when every copy succeeds.        *)
CopyAgents(f, agents, failAt) ==
    LET upto == IF failAt = 0 THEN Len(agents) ELSE failAt - 1
    IN  [fs |-> [f EXCEPT !.appmgr = @ \cup {agents[i] : i \in 1..upto}],
         err |-> IF failAt = 0 THEN "nil" ELSE "AgentCopyFailed"]

(* cert.RetrieveNodeCertData: the node's certificate and key as they are   *)
(* on disk, or an error.                                                   *)
RetrieveNodeCertData(ok) ==
    IF ok THEN [Cert |-> "cert", Key |-> "key", err |-> "nil"]
          ELSE [Cert |-> "", Key |-> "", err |-> "NotFound"]

(* cert.GenerateCert: a fresh certificate and key, or zero values and an   *)
(* error.                                                                  *)
GenerateCert(ok) ==
    IF ok THEN [Cert |-> "cert", Key |-> "key", err |-> "nil"]
          ELSE [Cert |-> "", Key |-> "", err |-> "CertificateError"]

(* Variant that generates a certificate whether or not one was retrieved.  *)
NodeCertsAlwaysGenerated(retrieveOk, generateOk) ==
    LET g == GenerateCert(generateOk)
    IN  [Cert |-> g.Cert, Key |-> g.Key,
         retrieve |-> IF retrieveOk THEN "ok" ELSE "failed",
         generate |-> IF g.err = "nil" THEN "ok" ELSE "failed"]

(* nodeCerts of PreDeploy (srl.go:149-176): retrieved, and generated when  *)
(* the retrieval returned an error; the error of the generation is logged. *)
NodeCerts(retrieveOk, generateOk) ==
    LET r == RetrieveNodeCertData(retrieveOk)
        g == GenerateCert(generateOk)
    IN  IF r.err # "nil"
        THEN [Cert |-> g.Cert, Key |-> g.Key, retrieve |-> "failed",
              generate |-> IF g.err = "nil" THEN "ok" ELSE "failed"]
        ELSE [Cert |-> r.Cert, Key |-> r.Key, retrieve |-> "ok",
              generate |-> "skipped"]

(* Variant that also mounts the certificate into the container.            *)
SetNodeCertsAndBind(c, n) ==
    [c EXCEPT !.TLSCert = n.Cert, !.TLSKey = n.Key,
              !.Binds = @ \o <<"node.pem:/etc/ssl/node.pem:ro">>]

(* s.cfg.TLSCert = string(nodeCerts.Cert); s.cfg.TLSKey = string(nodeCerts.Key) *)
SetNodeCerts(c, n) == [c EXCEPT !.TLSCert = n.Cert, !.TLSKey = n.Key]

(* The answers of a collaborator that a call may or may not reach: both    *)
(* answers when it is reached, one when it is not.                         *)
Answers(reached) == IF reached THEN BOOLEAN ELSE {TRUE}

(* The bytes rand.Read may have put into buf.  They reach the file only    *)
(* when no step fails; bytes that are dropped are drawn as one pair.       *)
Draws(how) == IF how = "ok" THEN entropy ELSE {CHOOSE b \in entropy : TRUE}

(* srl.PreDeploy.                                                          *)
PreDeploy ==
    /\ op = "idle"
    /\ stage \in {"inited", "predeployed"}
    /\ \E retrieveOk \in BOOLEAN, licenseOk \in Answers(cfg.License # ""),
          readOk \in Answers(cfg.StartupConfig # ""),
          topo \in TopoOutcomes, failAt \in 0..Len(cfg.SRLAgents) :
       \E generateOk \in Answers(~retrieveOk), genOk \in Answers(readOk),
          buf \in Draws(topo) :
        LET n == NodeCerts(retrieveOk, generateOk)
            withCerts == SetNodeCerts(cfg, n)
            a == CopyAgents(fs, cfg.SRLAgents, failAt)
            s == createSRLFiles(withCerts, a.fs, licenseOk, topo, buf, readOk, genOk)
        IN  /\ cfg' = withCerts
            /\ IF a.err # "nil"
               THEN /\ fs' = a.fs
                    /\ result' = Returned("PreDeploy", a.err)
                    /\ pre' = [called |-> TRUE, found |-> fs.topology.state,
                               retrieve |-> n.retrieve,
                               generate |-> n.generate, agents |-> "failed",
                               license |-> "skipped", topo |-> "skipped",
                               buf |-> << >>, overlay |-> "skipped"]
               ELSE /\ fs' = s.fs
                    /\ result' = Returned("PreDeploy", s.err)
                    /\ pre' = [called |-> TRUE, found |-> fs.topology.state,
                               retrieve |-> n.retrieve,
                               generate |-> n.generate,
                               agents |-> IF Len(cfg.SRLAgents) = 0 THEN "skipped" ELSE "ok",
                               license |-> s.license, topo |-> s.topo,
                               buf |-> IF s.topo = "ok" THEN buf ELSE << >>,
                               overlay |-> s.overlay]
            /\ stage' = IF result'.err = "nil" THEN "predeployed" ELSE "failed"
    /\ boot' = NoBoot
    /\ UNCHANGED <<op, pc, elapsed, ctxCancelled, exec, execs, host>>

(* PreDeploy of the other node, as far as its topology.yml goes: the same  *)
(* generateSRLTopologyFile, on that node's lab directory.                  *)
PeerPreDeploy ==
    /\ peer.state = "absent"
    /\ \E how \in TopoOutcomes : \E buf \in Draws(how) :
        peer' = generateSRLTopologyFile([topology |-> peer], how, buf).fs.topology
    /\ UNCHANGED <<cfg, fs, stage, op, pc, elapsed, ctxCancelled, exec, execs,
                   result, pre, boot, entropy>>

(* srl.Deploy: CreateContainer, its error returned as it is.               *)
Deploy ==
    /\ op = "idle"
    /\ stage = "predeployed"
    /\ \E ok \in BOOLEAN :
        /\ stage' = IF ok THEN "deployed" ELSE stage
        /\ result' = Returned("Deploy", IF ok THEN "nil" ELSE "RuntimeError")
    /\ pre' = NoPre
    /\ boot' = NoBoot
    /\ UNCHANGED <<cfg, fs, op, pc, elapsed, ctxCancelled, exec, execs, host>>

(* srl.Delete: DeleteContainer, its error returned as it is.               *)
Delete ==
    /\ op = "idle"
    /\ stage = "deployed"
    /\ \E ok \in BOOLEAN :
        /\ stage' = IF ok THEN "deleted" ELSE stage
        /\ result' = Returned("Delete", IF ok THEN "nil" ELSE "RuntimeError")
    /\ pre' = NoPre
    /\ boot' = NoBoot
    /\ UNCHANGED <<cfg, fs, op, pc, elapsed, ctxCancelled, exec, execs, host>>

-----------------------------------------------------------------------------
(* A lifecycle method returns e to the orchestrator: its context and the   *)
(* clock of its readiness gate are gone with it.                           *)
Return(o, e) ==
    /\ op' = "idle"
    /\ pc' = "none"
    /\ elapsed' = 0
    /\ ctxCancelled' = FALSE
    /\ result' = Returned(o, e)

(* Entry of Ready (srl.go:246-251): the context is derived with the        *)
(* readyTimeout deadline, stdout, stderr and err start as zero values.     *)
EnterReady(caller, cancelled) ==
    /\ op' = caller
    /\ pc' = "select"
    /\ elapsed' = 0
    /\ ctxCancelled' = cancelled
    /\ exec' = NoExec
    /\ execs' = NoExecs
    /\ result' = Pending(caller)

(* utils.FileExists(filepath.Join(s.cfg.LabDir, "config", "config.json"))  *)
FileExists(f) == f.configJson

(* Variants of the skip condition: the persisted file not looked at, and   *)
(* both kinds of configuration required.                                   *)
SkipOnStartupConfigOnly(c, f) == c.StartupConfig # ""

SkipWhenBoth(c, f) == c.StartupConfig # "" /\ FileExists(f)

(* The condition of srl.go:205 under which PostDeploy returns at once.     *)
SkipDefaultConfig(c, f) == c.StartupConfig # "" \/ FileExists(f)

(* srl.PostDeploy up to its first Exec: either it returns nil at once, or  *)
(* it calls addDefaultConfig, which starts with Ready.                     *)
PostDeploy ==
    /\ op = "idle"
    /\ stage = "deployed"
    /\ IF SkipDefaultConfig(cfg, fs)
       THEN /\ Return("PostDeploy", "nil")
            /\ exec' = NoExec
            /\ execs' = NoExecs
       ELSE \E cancelled \in BOOLEAN : EnterReady("PostDeploy", cancelled)
    /\ pre' = NoPre
    /\ boot' = NoBoot
    /\ UNCHANGED <<cfg, fs, stage, host>>

(* srl.Ready called by the orchestrator itself.                            *)
Ready ==
    /\ op = "idle"
    /\ stage = "deployed"
    /\ \E cancelled \in BOOLEAN : EnterReady("Ready", cancelled)
    /\ pre' = NoPre
    /\ boot' = NoBoot
    /\ UNCHANGED <<cfg, fs, stage, host>>

(* Variants of the context: one without the deadline, one that does not   *)
(* follow the caller's cancellation.                                       *)
CtxDoneOnCancel == ctxCancelled

CtxDoneOnDeadline == elapsed >= readyTimeout

(* <-ctx.Done() is ready: the caller cancelled, or the deadline passed.    *)
CtxDone == ctxCancelled \/ elapsed >= readyTimeout

(* Variant of the tests that leaves out the error stream.                  *)
CheckIgnoringStderr(r, marker) ==
    /\ r.err = "nil"
    /\ Contains(r.stdout, marker)

(* The three tests after each readiness Exec (srl.go:259-271, 275-290).    *)
CheckPassed(r, marker) ==
    /\ r.err = "nil"
    /\ Len(r.stderr) = 0
    /\ Contains(r.stdout, marker)

(* Variant of the retry that repeats only the command that did not pass.   *)
ContinueAtSameCommand(cmd) ==
    IF cmd = "commitCompleteCmd" THEN "commit" ELSE "select"

(* Where "continue" resumes after the sleep: the top of the for loop.      *)
ContinueAt(cmd) == "select"

(* Ready returns e: to the orchestrator, or into addDefaultConfig, which   *)
(* returns an error at once (srl.go:382-384) and goes on to the transfer   *)
(* otherwise.                                                              *)
ReadyReturns(e) ==
    IF op = "PostDeploy" /\ e = "nil"
    THEN /\ pc' = "transfer"
         /\ elapsed' = 0
         /\ UNCHANGED <<op, ctxCancelled, result>>
    ELSE Return(op, e)

InReady == pc \in {"select", "commit"}

(* Variant of the retry that gives up when the Exec itself failed.         *)
FailOnExecError(cmd, d) ==
    IF exec'.err # "nil"
    THEN Return(op, "RuntimeError")
    ELSE /\ elapsed' = Advance(Advance(elapsed, d), retryTimer)
         /\ pc' = ContinueAt(cmd)
         /\ UNCHANGED <<op, ctxCancelled, result>>

(* A check that did not pass: time.Sleep(retryTimer); continue             *)
SleepAndContinue(cmd, d) ==
    /\ elapsed' = Advance(Advance(elapsed, d), retryTimer)
    /\ pc' = ContinueAt(cmd)
    /\ UNCHANGED <<op, ctxCancelled, result>>

(* One pass from the top of the for loop (srl.go:253-271): the select on   *)
(* ctx.Done(), and in its default branch the Exec of mgmtServerRdyCmd with *)
(* its three checks.                                                       *)
ReadyPoll ==
    /\ pc = "select"
    /\ IF CtxDone
       THEN /\ ReadyReturns("TimedOut")
            /\ UNCHANGED <<exec, execs>>
       ELSE \E r \in ExecResults, d \in ExecTimes :
            /\ exec' = Issued("mgmtServerRdyCmd", r)
            /\ execs' = execs
            /\ IF CheckPassed(r, mgmtServerRdyMarker)
               THEN /\ pc' = "commit"
                    /\ elapsed' = Advance(elapsed, d)
                    /\ UNCHANGED <<op, ctxCancelled, result>>
               ELSE SleepAndContinue("mgmtServerRdyCmd", d)
    /\ UNCHANGED <<cfg, fs, stage, pre, boot, host>>

(* The rest of the pass (srl.go:274-292): the Exec of commitCompleteCmd    *)
(* with its three checks, and the return once they pass.                   *)
ReadyCommit ==
    /\ pc = "commit"
    /\ \E r \in ExecResults, d \in ExecTimes :
        /\ exec' = Issued("commitCompleteCmd", r)
        /\ execs' = execs
        /\ IF CheckPassed(r, commitCompleteMarker)
           THEN ReadyReturns("nil")
           ELSE SleepAndContinue("commitCompleteCmd", d)
    /\ UNCHANGED <<cfg, fs, stage, pre, boot, host>>

(* The caller cancels the context it passed to a call in progress.         *)
CancelCtx ==
    /\ op \in {"Ready", "PostDeploy"}
    /\ ~ctxCancelled
    /\ ctxCancelled' = TRUE
    /\ UNCHANGED <<cfg, fs, stage, op, pc, elapsed, exec, execs, result, pre,
                   boot, host>>

-----------------------------------------------------------------------------
(* Variant of the error test that lets every Exec count as done.           *)
ExecNeverFailed(r) == FALSE

(* if err != nil after an Exec of addDefaultConfig (srl.go:399, 409).      *)
ExecFailed(r) == r.err # "nil"

(* srlConfigCmdsTpl executed on a NodeConfig: the lines of the text, each  *)
(* a pair of its fixed words and the field put between its quotes ("" for  *)
(* a line without a field).  {{ if .TLSAnchor }} is taken when the string  *)
(* is not empty.                                                           *)
TlsProfile == "set / system tls server-profile clab-profile"
AuthenticateClientTrue == <<TlsProfile, "authenticate-client true", "">>
AuthenticateClientFalse == <<TlsProfile, "authenticate-client false", "">>

(* Variant of the branch without its else part.                            *)
ClientAuthWithoutElse(c) ==
    IF c.TLSAnchor # ""
    THEN << AuthenticateClientTrue, <<TlsProfile, "trust-anchor", c.TLSAnchor>> >>
    ELSE << >>

(* {{- if .TLSAnchor }} ... {{- else }} ... {{- end }} (srl.go:40-45)       *)
ClientAuth(c) ==
    IF c.TLSAnchor # ""
    THEN << AuthenticateClientTrue, <<TlsProfile, "trust-anchor", c.TLSAnchor>> >>
    ELSE << AuthenticateClientFalse >>

srlConfigCmdsTpl(c) ==
    <<  <<TlsProfile, "", "">>,
        <<TlsProfile, "key", c.TLSKey>>,
        <<TlsProfile, "certificate", c.TLSCert>>  >>
    \o ClientAuth(c)
    \o <<  <<"set / system gnmi-server", "admin-state enable network-instance mgmt admin-state enable tls-profile clab-profile", "">>,
           <<"set / system json-rpc-server", "admin-state enable network-instance mgmt http admin-state enable", "">>,
           <<"set / system json-rpc-server", "admin-state enable network-instance mgmt https admin-state enable tls-profile clab-profile", "">>,
           <<"set / system lldp", "admin-state enable", "">>,
           <<"set / system aaa authentication", "idle-timeout 7200", "">>,
           <<"commit save", "", "">>  >>

(* The file names in the two bash commands: the redirect of the transfer   *)
(* names /tmp/clab-config (srl.go:396), the redirect of sr_cli names       *)
(* tmp/clab-config (srl.go:406).                                           *)
TransferPath == [abs |-> TRUE, parts |-> <<"tmp", "clab-config">>]
ApplyPath == [abs |-> FALSE, parts |-> <<"tmp", "clab-config">>]

(* The directories an Exec may run its command in: / and /home/admin.      *)
ExecDirs == {<< >>, <<"home", "admin">>}

(* The file a shell running in directory cwd opens for path p.             *)
Resolve(cwd, p) == IF p.abs THEN p.parts ELSE cwd \o p.parts

(* addDefaultConfig after Ready: the rendered commands are written to      *)
(* /tmp/clab-config by one Exec (srl.go:386-401); only err is looked at.   *)
(* Rendering into a bytes.Buffer from fields NodeConfig has cannot fail.   *)
AddDefaultConfigTransfer ==
    /\ pc = "transfer"
    /\ \E r \in ExecResults, cwd \in ExecDirs :
        /\ exec' = Issued("transfer", r)
        /\ execs' = Count("transfer")
        /\ IF ExecFailed(r)
           THEN /\ Return("PostDeploy", "RuntimeError")
                /\ boot' = NoBoot
           ELSE /\ pc' = "apply"
                /\ boot' = [ran |-> TRUE, cwd |-> cwd,
                            file |-> Resolve(cwd, TransferPath),
                            text |-> srlConfigCmdsTpl(cfg),
                            read |-> << >>]
                /\ UNCHANGED <<op, elapsed, ctxCancelled, result>>
    /\ UNCHANGED <<cfg, fs, stage, pre, host>>

(* The sr_cli Exec that applies the file (srl.go:403-415): the shell opens *)
(* the file its redirect names, in the directory the container runs Execs  *)
(* in.                                                                     *)
AddDefaultConfigApply ==
    /\ pc = "apply"
    /\ \E r \in ExecResults :
        /\ exec' = Issued("apply", r)
        /\ execs' = Count("apply")
        /\ Return("PostDeploy", IF ExecFailed(r) THEN "RuntimeError" ELSE "nil")
    /\ boot' = [boot EXCEPT !.read = Resolve(boot.cwd, ApplyPath)]
    /\ UNCHANGED <<cfg, fs, stage, pre, host>>

-----------------------------------------------------------------------------
(* Variant of SaveConfig that trusts the collaborator's error alone.       *)
SaveConfigErrOnly(r) == IF r.err # "nil" THEN "ExecFailed" ELSE "nil"

(* What SaveConfig returns for an Exec result (srl.go:230-240).            *)
SaveConfigResult(r) ==
    IF r.err # "nil" THEN "ExecFailed"
    ELSE IF Len(r.stderr) > 0 THEN "RemoteCommandFailed"
    ELSE "nil"

(* srl.SaveConfig: one Exec of saveCmd.                                    *)
SaveConfig ==
    /\ op = "idle"
    /\ stage = "deployed"
    /\ \E r \in ExecResults :
        /\ exec' = Issued("saveCmd", r)
        /\ execs' = [NoExecs EXCEPT !["saveCmd"] = Min(@ + 1, ExecCap)]
        /\ Return("SaveConfig", SaveConfigResult(r))
    /\ pre' = NoPre
    /\ boot' = NoBoot
    /\ UNCHANGED <<cfg, fs, stage, host>>

-----------------------------------------------------------------------------
(* srl.Config and srl.GetImages: each returns what it reads from s.cfg.     *)
Config ==
    /\ op = "idle"
    /\ stage # "new"
    /\ result' = [op |-> "Config", err |-> "nil", value |-> cfg]
    /\ UNCHANGED <<cfg, fs, stage, op, pc, elapsed, ctxCancelled, exec, execs,
                   pre, boot, host>>

GetImages ==
    /\ op = "idle"
    /\ stage # "new"
    /\ result' = [op |-> "GetImages", err |-> "nil", value |-> <<cfg.Image>>]
    /\ UNCHANGED <<cfg, fs, stage, op, pc, elapsed, ctxCancelled, exec, execs,
                   pre, boot, host>>

ReadyStep == ReadyPoll \/ ReadyCommit

(* Init and nothing after it.                                              *)
NextInit == SrlInit

(* The stages before the creation of the container, for two nodes.         *)
NextProvision ==
    \/ SrlInit
    \/ PreDeploy
    \/ PeerPreDeploy

Next ==
    \/ SrlInit
    \/ PreDeploy
    \/ Deploy
    \/ PostDeploy
    \/ Ready
    \/ ReadyPoll
    \/ ReadyCommit
    \/ CancelCtx
    \/ AddDefaultConfigTransfer
    \/ AddDefaultConfigApply
    \/ SaveConfig
    \/ Delete
    \/ Config
    \/ GetImages

Spec == Init /\ [][Next]_vars

InitSpec == InitAny /\ [][NextInit]_vars

ProvisionSpec == InitRand /\ [][NextProvision]_vars

(* Every Exec returns and every sleep ends: a poll in progress goes on.    *)
FairSpec == Spec /\ WF_vars(ReadyStep)

-----------------------------------------------------------------------------
(* Vocabulary of the properties, stated without the operators of the       *)
(* model they are checked against.                                         *)

(* An Exec result reports word: no error, nothing on the error stream, and *)
(* the word in the output.                                                 *)
Reports(r, word) ==
    /\ r.err = "nil"
    /\ r.stderr = << >>
    /\ \E i \in 1..Len(r.stdout) : r.stdout[i] = word

(* The context of Ready is done.                                           *)
ContextDone == ctxCancelled \/ elapsed >= readyTimeout

(* The step is the caller cancelling, not the driver running.              *)
Cancels == ctxCancelled' /\ ~ctxCancelled

(* The step is the orchestrator calling PostDeploy.                        *)
CallsPostDeploy == op = "idle" /\ result'.op = "PostDeploy"

(* The step ends Ready with success.                                       *)
ReadySucceeds ==
    /\ InReady
    /\ ~InReady'
    /\ pc' = "transfer" \/ (op' = "idle" /\ result'.err = "nil")

(* The step sends the poller to sleep and back to the top of the loop.     *)
Retries ==
    /\ InReady'
    /\ pc' = "select"
    /\ op' = op
    /\ result' = result
    /\ elapsed' >= Min(elapsed + retryTimer, ClockMax)

Unconfigured == cfg.StartupConfig = "" /\ ~fs.configJson

-----------------------------------------------------------------------------
(* C1, as the specification words it: once the mgmt_server check has       *)
(* passed, a commit check that does not pass is retried from the commit    *)
(* check; the poller does not go back to the mgmt_server check.            *)
C1_CommitRetriedFromWaitingCommit ==
    [][(pc = "commit" /\ InReady') => pc' = "commit"]_vars

(* C1, amended: a commit check that does not pass makes the poller sleep   *)
(* retryTimer and start the next iteration at the top of the loop, where   *)
(* the context is checked and the mgmt_server command is run again; the    *)
(* commit command is only ever run right after a mgmt_server check that    *)
(* passed in the same iteration.                                           *)
C1_FailedCommitRestartsIteration ==
    [][/\ (pc = "commit" /\ ~Cancels) =>
            /\ exec.cmd = "mgmtServerRdyCmd"
            /\ Reports(exec, "running")
            /\ exec'.cmd = "commitCompleteCmd"
            /\ ~Reports(exec', "complete") => Retries
       /\ (pc = "select" /\ ~Cancels /\ ~ContextDone) =>
            exec'.cmd = "mgmtServerRdyCmd"
      ]_vars

(* A commit check has failed and the poller is back at the top of the loop *)
(* with time left.                                                         *)
C1_Witness ==
    /\ pc = "select"
    /\ exec.cmd = "commitCompleteCmd"
    /\ ~ContextDone

(* C2, as the specification words it: every PostDeploy call runs the       *)
(* readiness gate first.                                                   *)
C2_EveryPostDeployRunsReady ==
    [][CallsPostDeploy => InReady']_vars

(* C2, amended: PostDeploy runs the readiness gate only on the default     *)
(* bootstrap path (no startup configuration and no config/config.json),    *)
(* where it runs before any other command and its timeout is PostDeploy's  *)
(* result; with a startup configuration or a config/config.json PostDeploy *)
(* returns success at once, with no Exec and without running Ready.        *)
C2_ReadyOnlyOnDefaultPath ==
    [][/\ CallsPostDeploy =>
            IF Unconfigured
            THEN InReady' /\ pc' = "select" /\ exec' = NoExec /\ result'.err = "pending"
            ELSE op' = "idle" /\ exec' = NoExec /\ result'.err = "nil"
       /\ (op = "PostDeploy" /\ InReady /\ op' = "idle") =>
            /\ ContextDone
            /\ result' = Returned("PostDeploy", "TimedOut")
      ]_vars

(* PostDeploy of a node with a startup configuration has returned success  *)
(* without a single Exec.                                                  *)
C2_Witness ==
    /\ op = "idle"
    /\ result = Returned("PostDeploy", "nil")
    /\ exec = NoExec
    /\ cfg.StartupConfig # ""

(* C3: PostDeploy goes into the default bootstrap exactly when             *)
(* StartupConfig is empty and config/config.json does not exist; otherwise *)
(* it returns success and neither the transfer nor the apply Exec is       *)
(* issued.                                                                 *)
C3_DefaultPathExactlyWhenUnconfigured ==
    [][/\ CallsPostDeploy =>
            /\ (op' = "PostDeploy") <=> Unconfigured
            /\ (op' = "idle") =>
                 /\ result'.err = "nil"
                 /\ execs'["transfer"] = 0
                 /\ execs'["apply"] = 0
       /\ (exec'.cmd \in {"transfer", "apply"} /\ exec' # exec) => Unconfigured
       /\ (pc' \in {"transfer", "apply"}) => Unconfigured
      ]_vars

(* PostDeploy has skipped the bootstrap because config/config.json exists. *)
C3_Witness ==
    /\ op = "idle"
    /\ result = Returned("PostDeploy", "nil")
    /\ cfg.StartupConfig = ""
    /\ fs.configJson
    /\ execs = NoExecs

(* C4: on the default bootstrap path the transfer Exec follows a           *)
(* successful Ready, the apply Exec follows a transfer without error, each *)
(* is issued once at most, and an error of Ready, transfer or apply is     *)
(* PostDeploy's result with no later step run.                             *)
C4_BootstrapStepsOrdered ==
    [][/\ (pc' = "transfer" /\ pc # "transfer") =>
            /\ pc = "commit"
            /\ op = "PostDeploy"
            /\ Reports(exec', "complete")
            /\ execs' = NoExecs
       /\ (pc = "transfer" /\ ~Cancels) =>
            /\ exec'.cmd = "transfer"
            /\ execs' = [NoExecs EXCEPT !["transfer"] = 1]
            /\ IF exec'.err = "nil"
               THEN pc' = "apply" /\ op' = "PostDeploy"
               ELSE op' = "idle" /\ result' = Returned("PostDeploy", "RuntimeError")
       /\ (pc' = "apply" /\ pc # "apply") => pc = "transfer"
       /\ (pc = "apply" /\ ~Cancels) =>
            /\ exec'.cmd = "apply"
            /\ execs' = [NoExecs EXCEPT !["transfer"] = 1, !["apply"] = 1]
            /\ op' = "idle"
            /\ result' = Returned("PostDeploy",
                                  IF exec'.err = "nil" THEN "nil" ELSE "RuntimeError")
       /\ (op = "PostDeploy" /\ InReady /\ op' = "idle") =>
            /\ result'.err = "TimedOut"
            /\ execs' = NoExecs
      ]_vars

(* PostDeploy has returned success after one transfer and one apply.       *)
C4_Witness ==
    /\ op = "idle"
    /\ result = Returned("PostDeploy", "nil")
    /\ execs["transfer"] = 1
    /\ execs["apply"] = 1

(* C5: Ready returns an error only at the top of the loop with its context *)
(* done; an Exec error, output on the error stream or a missing marker in  *)
(* either command sends the poller to sleep retryTimer and poll again.     *)
C5_OnlyContextEndsReady ==
    [][/\ (InReady /\ op' = "idle" /\ result'.err # "nil") =>
            /\ pc = "select"
            /\ ContextDone
            /\ result'.err = "TimedOut"
       /\ (pc = "select" /\ ~Cancels /\ ~ContextDone /\ ~Reports(exec', "running")) =>
            Retries
       /\ (pc = "commit" /\ ~Cancels /\ ~Reports(exec', "complete")) =>
            Retries
      ]_vars

(* An Exec has returned an error and Ready is still polling.               *)
C5_Witness ==
    /\ pc = "select"
    /\ exec.err = "error"
    /\ ~ContextDone

(* C6: Ready returns success exactly when, in one iteration, the           *)
(* mgmt_server command reported "running" and the commit command issued    *)
(* right after it reported "complete", and it returns in the step that     *)
(* sees the second report.                                                 *)
C6_SuccessIffBothReport ==
    [][/\ ReadySucceeds =>
            /\ pc = "commit"
            /\ exec.cmd = "mgmtServerRdyCmd"
            /\ Reports(exec, "running")
            /\ exec'.cmd = "commitCompleteCmd"
            /\ Reports(exec', "complete")
       /\ (pc = "select" /\ ~Cancels /\ ~ContextDone) =>
            (pc' = "commit" <=> Reports(exec', "running"))
       /\ (pc = "commit" /\ ~Cancels /\ Reports(exec', "complete")) =>
            ReadySucceeds
      ]_vars

(* Ready, called by the orchestrator, has returned success.                *)
C6_Witness ==
    /\ op = "idle"
    /\ result = Returned("Ready", "nil")
    /\ exec.cmd = "commitCompleteCmd"

(* C7: with every Exec returning and every sleep ending, a Ready in        *)
(* progress returns; it returns success or the timeout, and when it        *)
(* returns the timeout without the caller having cancelled, the deadline   *)
(* has passed.                                                             *)
C7_ReadyTerminates ==
    /\ InReady ~> ~InReady
    /\ [][(InReady /\ ~InReady') =>
             /\ ReadySucceeds \/ (op' = "idle" /\ result'.err = "TimedOut")
             /\ (result'.err = "TimedOut" /\ ~ctxCancelled) => elapsed >= readyTimeout
         ]_vars

(* The deadline has passed on a node that was polled and never ready.      *)
C7_Witness ==
    /\ pc = "select"
    /\ ~ctxCancelled
    /\ elapsed >= readyTimeout
    /\ exec.cmd # "none"

(* C8: an iteration that starts with the context done issues no Exec and   *)
(* returns the timeout; a Ready call starts at that check with no Exec     *)
(* issued; once the caller has cancelled, Ready returns at the start of    *)
(* the next iteration at the latest.                                       *)
C8_ContextCheckedEveryIteration ==
    [][/\ (pc = "select" /\ ContextDone /\ ~Cancels) =>
            /\ exec' = exec
            /\ op' = "idle"
            /\ result' = Returned(op, "TimedOut")
       /\ (InReady' /\ ~InReady) =>
            /\ pc' = "select"
            /\ exec' = NoExec
       /\ (InReady /\ ctxCancelled) =>
            (~InReady' \/ (pc = "commit" /\ pc' = "select"))
      ]_vars

(* Ready has returned the timeout without having issued an Exec.           *)
C8_Witness ==
    /\ op = "idle"
    /\ result = Returned("Ready", "TimedOut")
    /\ exec = NoExec

(* C9: SaveConfig issues one Exec of the save command; it succeeds exactly *)
(* when the collaborator reports no error and the error stream is empty;   *)
(* output on the error stream without a collaborator error is              *)
(* RemoteCommandFailed; a collaborator error is the exec failure, whatever *)
(* the error stream holds.                                                 *)
C9_SaveConfigResult ==
    (op = "idle" /\ result.op = "SaveConfig") =>
        /\ exec.cmd = "saveCmd"
        /\ execs = [NoExecs EXCEPT !["saveCmd"] = 1]
        /\ (result.err = "nil") <=> (exec.err = "nil" /\ exec.stderr = << >>)
        /\ (exec.err = "nil" /\ exec.stderr # << >>) => result.err = "RemoteCommandFailed"
        /\ (exec.err # "nil") => result.err = "ExecFailed"

(* SaveConfig has failed on error-stream output alone.                     *)
C9_Witness ==
    /\ op = "idle"
    /\ result = Returned("SaveConfig", "RemoteCommandFailed")
    /\ exec.err = "nil"

(* C10: PreDeploy returns an error whenever the startup-configuration      *)
(* overlay or the topology descriptor could not be rendered.               *)
C10_RenderFailureFailsPreDeploy ==
    (/\ result.op = "PreDeploy"
     /\ pre.called
     /\ \/ pre.overlay \in {"readFailed", "renderFailed"}
        \/ pre.topo \in {"parse", "rand", "create", "execute"})
    => result.err # "nil"

-----------------------------------------------------------------------------
(* PreDeploy has just returned: the answers of its collaborators are at    *)
(* hand.                                                                   *)
PreDeployReturned == op = "idle" /\ result.op = "PreDeploy" /\ pre.called

(* C11: in PreDeploy a certificate is generated exactly when none could be *)
(* retrieved; the TLS fields are set from what was obtained, empty after a *)
(* failed generation; the agent copy and the artifact generation follow    *)
(* whatever the certificate steps answered, and PreDeploy returns an error *)
(* exactly when one of those later steps returns one.                      *)
C11_CertFailuresNotReturned ==
    PreDeployReturned =>
        /\ (pre.generate # "skipped") <=> (pre.retrieve = "failed")
        /\ cfg.TLSCert = (IF pre.generate = "failed" THEN "" ELSE "cert")
        /\ cfg.TLSKey = (IF pre.generate = "failed" THEN "" ELSE "key")
        /\ (pre.agents = "skipped") <=> (cfg.SRLAgents = << >>)
        /\ (pre.agents # "failed" /\ pre.license # "failed") => pre.topo # "skipped"
        /\ (result.err = "nil") <=>
               (/\ pre.agents # "failed"
                /\ pre.license # "failed"
                /\ pre.topo = "ok"
                /\ pre.overlay # "readFailed")

(* PreDeploy has returned nil although no certificate could be retrieved   *)
(* or generated.                                                           *)
C11_Witness ==
    /\ PreDeployReturned
    /\ pre.retrieve = "failed"
    /\ pre.generate = "failed"
    /\ result.err = "nil"
    /\ cfg.TLSCert = ""
    /\ fs.topology.state = "written"

(* The step is a second PreDeploy in a row on this node, the first having  *)
(* returned nil, in which every collaborator answers as it did in the      *)
(* first: the same certificate material, agent copies, license copy,       *)
(* topology steps and overlay render.                                      *)
RepeatsPreDeploy ==
    /\ PreDeployReturned
    /\ result.err = "nil"
    /\ pre'.called
    /\ pre'.found = "written"
    /\ peer' = peer
    /\ (pre'.generate = "failed") <=> (pre.generate = "failed")
    /\ pre'.agents = pre.agents
    /\ pre'.license = pre.license
    /\ pre'.topo = pre.topo
    /\ pre'.overlay = pre.overlay

(* C12, as the specification words it: a second PreDeploy in a row with    *)
(* unchanged inputs leaves the NodeConfig and every file of the lab        *)
(* directory, topology.yml with its base MAC included, as the first call   *)
(* left them.                                                              *)
C12_PreDeployIdempotent ==
    [][RepeatsPreDeploy => (cfg' = cfg /\ fs' = fs)]_vars

(* C12, as the code has it: a second PreDeploy in a row with unchanged     *)
(* inputs returns nil again and leaves the NodeConfig, config.json,        *)
(* license.key and the agent files as they were, but writes topology.yml   *)
(* anew, with the base MAC 02:xx:yy:00:00:00 of the two bytes this call    *)
(* drew, whatever MAC the first call had written.                          *)
C12_RepeatedPreDeployRedrawsMac ==
    [][RepeatsPreDeploy =>
        /\ result'.err = "nil"
        /\ cfg' = cfg
        /\ fs'.configJson = fs.configJson
        /\ fs'.license = fs.license
        /\ fs'.appmgr = fs.appmgr
        /\ fs'.topology = [state |-> "written",
                           mac |-> <<2, pre'.buf[1], pre'.buf[2], 0, 0, 0>>]
      ]_vars

(* A second PreDeploy has returned nil on a node with a license, a startup *)
(* configuration and a topology.yml from the first call.                   *)
C12_Witness ==
    /\ PreDeployReturned
    /\ result.err = "nil"
    /\ pre.found = "written"
    /\ pre.overlay = "ok"
    /\ fs.license
    /\ fs.configJson
    /\ fs.topology.state = "written"
    /\ fs.topology.mac[2] # 0

(* C13: two node instances whose PreDeploy has written a topology.yml in   *)
(* the same process never have the same base MAC in it.                    *)
C13_BaseMacsNeverCollide ==
    (fs.topology.state = "written" /\ peer.state = "written")
    => fs.topology.mac # peer.mac

-----------------------------------------------------------------------------
(* The step is a call of Init that returns.                                *)
InitReturns == stage = "new" /\ stage' # "new" /\ result'.op = "Init"

(* C14: Init returns InvalidConfig exactly when the node type it is given  *)
(* is not empty and not one of ixr6, ixr10, ixrd1, ixrd2, ixrd3, ixrh2,    *)
(* ixrh3, and nil otherwise; the error lists each of the seven types once  *)
(* and nothing else; an empty node type becomes ixrd2 and Init returns     *)
(* nil.                                                                    *)
C14_InitRejectsExactlyUnknownTypes ==
    [][InitReturns =>
        LET seven == {"ixr6", "ixr10", "ixrd1", "ixrd2", "ixrd3", "ixrh2", "ixrh3"}
            unknown == cfg.NodeType # "" /\ cfg.NodeType \notin seven
        IN  /\ result'.err = (IF unknown THEN "InvalidConfig" ELSE "nil")
            /\ unknown =>
                  /\ DOMAIN result'.listed = seven
                  /\ \A t \in seven : result'.listed[t] = 1
            /\ cfg.NodeType = "" => cfg'.NodeType = "ixrd2"
            /\ ~unknown => cfg'.NodeType \in seven
      ]_vars

(* Init has rejected a name that differs from a supported type in case     *)
(* only.                                                                   *)
C14_Witness ==
    /\ stage = "invalid"
    /\ result.err = "InvalidConfig"
    /\ result.nodeType = "IXRD2"
    /\ cfg.NodeType = "IXRD2"

(* C15: after an Init that returns nil, each of the six sysctls of the     *)
(* kind is in the node's sysctls with the value 0, whatever value the user *)
(* gave it, and every other sysctl of the user is there with the user's    *)
(* value; nothing else is.                                                 *)
C15_DefaultSysctlsOverrideUser ==
    [][(InitReturns /\ result'.err = "nil") =>
        LET six == {"net.ipv4.ip_forward", "net.ipv6.conf.all.disable_ipv6",
                    "net.ipv6.conf.all.accept_dad",
                    "net.ipv6.conf.default.accept_dad",
                    "net.ipv6.conf.all.autoconf",
                    "net.ipv6.conf.default.autoconf"}
        IN  /\ DOMAIN cfg'.Sysctls = six \cup DOMAIN cfg.Sysctls
            /\ \A k \in six : cfg'.Sysctls[k] = "0"
            /\ \A k \in (DOMAIN cfg.Sysctls) \ six :
                  cfg'.Sysctls[k] = cfg.Sysctls[k]
      ]_vars

(* Init has returned nil for a user who had set net.ipv4.ip_forward to 1   *)
(* and net.core.somaxconn to 512.                                          *)
C15_Witness ==
    /\ stage = "inited"
    /\ result = Returned("Init", "nil")
    /\ "net.core.somaxconn" \in DOMAIN cfg.Sysctls
    /\ cfg.Sysctls["net.core.somaxconn"] = "512"
    /\ cfg.Sysctls["net.ipv4.ip_forward"] = "0"

-----------------------------------------------------------------------------
(* C16: no step of PreDeploy, Deploy, PostDeploy, Ready, SaveConfig,       *)
(* Delete, Config or GetImages changes the binds, the env or the sysctls   *)
(* of the NodeConfig: once Init has returned the three fields stay as they *)
(* are, so after Deploy they are what they were when Deploy was called.    *)
C16_OnlyInitShapesRuntime ==
    [][stage # "new" =>
        /\ cfg'.Binds = cfg.Binds
        /\ cfg'.Env = cfg.Env
        /\ cfg'.Sysctls = cfg.Sysctls
      ]_vars

(* PreDeploy has put a certificate into the NodeConfig, the container has  *)
(* been created and bootstrapped by PostDeploy, and the binds are the      *)
(* three Init appended.                                                    *)
C16_Witness ==
    /\ stage = "deployed"
    /\ op = "idle"
    /\ result = Returned("PostDeploy", "nil")
    /\ execs["apply"] = 1
    /\ cfg.TLSCert = "cert"
    /\ cfg.License # ""
    /\ cfg.Binds = <<"license.key:/opt/srlinux/etc/license.key:ro",
                     "config:/etc/opt/srlinux/:rw",
                     "topology.yml:/tmp/topology.yml:ro">>
    /\ cfg.Env = [k \in {"SRLINUX"} |-> "0"]

-----------------------------------------------------------------------------
(* C17: the bootstrap text rendered for a node holds exactly one of the    *)
(* lines "authenticate-client true" and "authenticate-client false", once: *)
(* the first, together with the trust-anchor line, when the node has a     *)
(* trust anchor, the second when it has none.                              *)
C17_ExactlyOneClientAuthDirective ==
    boot.ran =>
        LET profile == "set / system tls server-profile clab-profile"
            times(l) == Cardinality({i \in 1..Len(boot.text) : boot.text[i] = l})
            enable == times(<<profile, "authenticate-client true", "">>)
            disable == times(<<profile, "authenticate-client false", "">>)
            anchor == times(<<profile, "trust-anchor", cfg.TLSAnchor>>)
        IN  IF cfg.TLSAnchor # ""
            THEN enable = 1 /\ disable = 0 /\ anchor = 1
            ELSE enable = 0 /\ disable = 1

(* The text has been rendered and transferred for a node with the trust    *)
(* anchor rootCA.                                                          *)
C17_Witness ==
    /\ boot.ran
    /\ cfg.TLSAnchor = "rootCA"
    /\ \E i \in 1..Len(boot.text) :
          boot.text[i] = <<"set / system tls server-profile clab-profile",
                           "trust-anchor", "rootCA">>

(* C18: the file sr_cli reads its commands from in the apply step is the   *)
(* file the transfer step wrote the rendered text to.                      *)
C18_ApplyReadsTransferredFile ==
    (boot.ran /\ boot.read # << >>) => boot.read = boot.file

-----------------------------------------------------------------------------
(* C19: an Init that returns InvalidConfig leaves the NodeConfig it was    *)
(* given as it was: node type, entrypoint command, env, user, sysctls and  *)
(* binds, and every other field.                                           *)
C19_RejectedConfigUntouched ==
    [][(InitReturns /\ result'.err = "InvalidConfig") =>
        /\ cfg'.NodeType = cfg.NodeType
        /\ cfg'.Cmd = cfg.Cmd
        /\ cfg'.Env = cfg.Env
        /\ cfg'.User = cfg.User
        /\ cfg'.Sysctls = cfg.Sysctls
        /\ cfg'.Binds = cfg.Binds
        /\ cfg' = cfg
      ]_vars

(* Init has rejected the type sr1 of a NodeConfig with a license, a bind   *)
(* of the user and no user, command or sysctls.                            *)
C19_Witness ==
    /\ stage = "invalid"
    /\ result.err = "InvalidConfig"
    /\ cfg.NodeType = "sr1"
    /\ cfg.License # ""
    /\ cfg.Binds = <<"/lab/data:/data:rw">>
    /\ cfg.Cmd = ""
    /\ cfg.User = ""
    /\ cfg.Sysctls = << >>
    /\ cfg.Env = << >>

(* C20: once PreDeploy, Deploy and PostDeploy have returned nil in that    *)
(* order, the node is configured: config/config.json is in its lab         *)
(* directory, or that PostDeploy has transferred and applied the default   *)
(* bootstrap commands.                                                     *)
C20_SuccessfulLifecycleConfigures ==
    (/\ stage = "deployed"
     /\ op = "idle"
     /\ result = Returned("PostDeploy", "nil"))
    => \/ fs.configJson
       \/ execs["transfer"] = 1 /\ execs["apply"] = 1

====
